---- MODULE Spec2Model ----
(***************************************************************************)
(* Model of the oftee OpenFlow tee proxy: the criteria match, the          *)
(* per-device session loop of App.handle (header read, pass-through        *)
(* streaming, Packet-In reassembly, frame decode, forward and tee), and    *)
(* the controller-to-device copy task.                                     *)
(***************************************************************************)
EXTENDS Integers, Sequences, FiniteSets, TLC

(* ---------------------------------------------------------------------- *)
(* Program constants                                                      *)
(* ---------------------------------------------------------------------- *)
BitEmpty == 0
BitDLType == 1
BUFFER_SIZE == 2048
\* wire size of of.Header, the value header.ReadFrom returns as hCount
HeaderLen == 8
\* of.TypePacketIn
TypePacketIn == 10
\* bytes of an Ethernet header, the least gopacket needs to decode the layer
EthHdrLen == 14
\* width of the uint16 variable "left"
U16 == 65536

(* ---------------------------------------------------------------------- *)
(* Bounds of the model                                                    *)
(* ---------------------------------------------------------------------- *)
\* largest value of the Criteria.Set bit set that is enumerated
MaxSet == 3
\* messages a device sends on one connection
MaxMsgs == 2
\* byte size of the Packet-In sub-header (piCount), scaled down
SubHdrLen == 2
\* endpoint specifications in app.TeeTo
MaxSpecs == 2
\* passes of the accept loop
MaxConns == 2
\* mapping events sent to the update task
MaxEvents == 2

\* link types of the frames and rules: 0x0800 and 0x0806
EthIPv4 == 8 * 256
EthARP == 8 * 256 + 6
DlTypes == {0, EthIPv4, EthARP}

(* ---------------------------------------------------------------------- *)
(* criteria.Criteria and Criteria.Match                                   *)
(* ---------------------------------------------------------------------- *)
Criteria(set, dl) == [Set |-> set, DlType |-> dl]
CriteriaSet == [Set : 0..MaxSet, DlType : DlTypes]

\* x & BitDLType, bit 0 of the bit set
AndBitDLType(x) == x % 2

\* a plausible slip: the value comparison is dropped
MatchNoValue(c, state) ==
    ~(AndBitDLType(c.Set) > 0 /\ AndBitDLType(state.Set) = 0)

\* a plausible slip: the rule must constrain the field to match at all
MatchStrict(c, state) ==
    AndBitDLType(c.Set) > 0 /\ AndBitDLType(state.Set) > 0
        /\ c.DlType = state.DlType

Match(c, state) ==
    IF AndBitDLType(c.Set) > 0
          /\ (AndBitDLType(state.Set) = 0 \/ c.DlType # state.DlType)
    THEN FALSE
    ELSE TRUE

(* ---------------------------------------------------------------------- *)
(* Sequences of bytes                                                     *)
(* ---------------------------------------------------------------------- *)
min(a, b) == IF a < b THEN a ELSE b

IsPrefix(a, b) == Len(a) <= Len(b) /\ SubSeq(b, 1, Len(a)) = a

Slice(b, from, n) == SubSeq(b, from + 1, from + n)

RECURSIVE Flatten(_)
Flatten(ss) == IF ss = << >> THEN << >> ELSE Head(ss) \o Flatten(Tail(ss))

\* 1..n as a sequence of bytes starting at base
Fill(base, n) == [i \in 1..n |-> base + i]

(* ---------------------------------------------------------------------- *)
(* of.Header: version, type, length, transaction, big-endian              *)
(* ---------------------------------------------------------------------- *)
ParseHeader(b) ==
    [Version |-> b[1], Type |-> b[2], Length |-> b[3] * 256 + b[4],
     Transaction |-> ((b[5] * 256 + b[6]) * 256 + b[7]) * 256 + b[8]]

\* a plausible slip: the length is written little-endian
HeaderBytesLE(h) ==
    <<h.Version, h.Type, h.Length % 256, h.Length \div 256,
      (h.Transaction \div 16777216) % 256, (h.Transaction \div 65536) % 256,
      (h.Transaction \div 256) % 256, h.Transaction % 256>>

HeaderBytes(h) ==
    <<h.Version, h.Type, h.Length \div 256, h.Length % 256,
      (h.Transaction \div 16777216) % 256, (h.Transaction \div 65536) % 256,
      (h.Transaction \div 256) % 256, h.Transaction % 256>>

NoHeader == [Version |-> 0, Type |-> 0, Length |-> 0, Transaction |-> 0]

\* uint16 subtraction
SubU16(a, b) == (a - b) % U16

(* ---------------------------------------------------------------------- *)
(* gopacket Ethernet decode of the embedded frame                         *)
(* ---------------------------------------------------------------------- *)
\* the Ethernet layer exists iff the frame holds a whole Ethernet header
EthDecodes(frame) == Len(frame) >= EthHdrLen

\* EthernetType: big-endian bytes 12..13; a value below 0x0600 is a length
\* and the type is reported as LLC (0)
EthernetType(frame) ==
    LET t == frame[13] * 256 + frame[14]
    IN  IF t < 1536 THEN 0 ELSE t

(* ---------------------------------------------------------------------- *)
(* Inputs: the messages a device sends                                    *)
(* ---------------------------------------------------------------------- *)
Hdr(type, length, xid) == <<4, type, length \div 256, length % 256, 0, 0, 0, xid>>

EthFrame(src, dl, payload) ==
    Fill(100, 6) \o [i \in 1..6 |-> src] \o <<dl \div 256, dl % 256>> \o payload

PacketIn(xid, frame) ==
    Hdr(TypePacketIn, HeaderLen + SubHdrLen + Len(frame), xid)
        \o Fill(16, SubHdrLen) \o frame

MsgHello == Hdr(0, HeaderLen, 1)
MsgEcho == Hdr(2, HeaderLen + 2, 2) \o <<170, 187>>
MsgPacketInIPv4 == PacketIn(3, EthFrame(1, EthIPv4, <<69>>))
MsgPacketInShort == PacketIn(5, <<1, 2, 3>>)
\* a header whose declared length is smaller than the header itself
MsgBadLength == Hdr(0, 4, 6)

Catalog ==
    {MsgHello, MsgEcho, MsgPacketInIPv4, MsgPacketInShort, MsgBadLength}

MsgSeqs == UNION {[1..n -> Catalog] : n \in 0..MaxMsgs}

\* every stream a device can deliver before it closes: whole messages, the
\* last one possibly cut short
Streams ==
    UNION {{SubSeq(Flatten(ms), 1, k) : k \in 0..Len(Flatten(ms))} : ms \in MsgSeqs}

\* the rules of the tee endpoints the sessions are handed
RuleWild == Criteria(BitEmpty, 0)
RuleIPv4 == Criteria(BitDLType, EthIPv4)
RuleARP == Criteria(BitDLType, EthARP)
EndpointConfigs == {<<RuleIPv4, RuleWild, RuleARP>>}

(* ---------------------------------------------------------------------- *)
(* State                                                                  *)
(* ---------------------------------------------------------------------- *)
VARIABLES
    mRule, mState, mResult,  \* Criteria.Match: receiver, argument, result
    stream,    \* per session: the bytes the device delivers before it closes
    pos,       \* per session: bytes of stream consumed through reader
    pc,        \* per session: position of App.handle
    header,    \* per session: var header of.Header
    left,      \* per session: var left uint16
    buffer,    \* per session: var buffer *bytes.Buffer
    match,     \* per session: var match criteria.Criteria
    teeIdx,    \* per session: endpoint ConditionalWrite is at
    teeOff,    \* per session: bytes of the message handed to that endpoint
    ctlNil,    \* per session: net.Dial failed and proxy.Connection is nil
    ctlUp,     \* per session: the controller connection is not broken
    ctlOut,    \* per session: bytes the controller has received
    ctlIn,     \* per session: bytes the controller still sends
    devOut,    \* per session: bytes the device has received
    copyPc,    \* per session: position of go io.Copy(conn, proxy.Connection)
    closed,    \* per session: which sockets the session has closed
    cur,       \* per session: history of the message being handled
    epRule,    \* rule of each tee endpoint, in registration order
    teeOut,    \* bytes passed to Write of each tee endpoint, call after call
    crashed,   \* the process has panicked
    TeeTo,         \* app.TeeTo: the endpoint specifications, as byte strings
    reach,         \* the host:port addresses at which a dial succeeds
    estStatus,     \* EstablishEndpointConnections: pending, ok, error or panic
    estEndpoints,  \* EstablishEndpointConnections: the list it returned
    ShareConnections,  \* app.ShareConnections
    lsnPc,         \* position of main and App.ListenAndServe
    appEndpoints,  \* app.endpoints, with the resolution that made the list
    resolutions,   \* calls of EstablishEndpointConnections so far
    conns,         \* one record for each pass of the accept loop
    estCall,       \* the call of EstablishEndpointConnections the loop is in
    injectors,     \* api.injectors
    lock,          \* api.lock: a writer holds it, the number of readers
    DPIDMappingListener,  \* the mapping events still to arrive on the channel
    upd,           \* dpidMappingUpdates: position and the mapping received
    received,      \* history: the mapping events received, in order
    req,           \* the request PacketOutHandler serves
    lst,           \* the request ListDevicesHandler serves
    injected       \* history: the calls of Inject

matchVars == <<mRule, mState, mResult>>
\* the sessions, and with crashed the process they run in
handleVars ==
    <<stream, pos, pc, header, left, buffer, match, teeIdx, teeOff, ctlNil,
      ctlUp, ctlOut, ctlIn, devOut, copyPc, closed, cur, epRule, teeOut>>
sessVars == <<handleVars, crashed>>
estVars == <<TeeTo, reach, estStatus, estEndpoints>>
lsnVars == <<ShareConnections, lsnPc, appEndpoints, resolutions, conns, estCall>>
apiVars == <<injectors, lock, DPIDMappingListener, upd, received, req, lst, injected>>
auxVars == <<estVars, lsnVars, apiVars>>
vars == <<matchVars, sessVars, auxVars>>

\* the accept loop is in no call of EstablishEndpointConnections
NoCall == [i |-> 0, endpoints |-> << >>, match |-> Criteria(BitEmpty, 0)]

\* no endpoint resolution is in progress
EstIdle ==
    /\ TeeTo = << >>
    /\ reach = {}
    /\ estStatus = "idle"
    /\ estEndpoints = << >>

\* main has not started
LsnIdle ==
    /\ ShareConnections = FALSE
    /\ lsnPc = "idle"
    /\ appEndpoints = [id |-> 0, list |-> << >>]
    /\ resolutions = 0
    /\ conns = << >>
    /\ estCall = NoCall

\* the API is not serving
ApiIdle ==
    /\ injectors = << >>
    /\ lock = [w |-> FALSE, r |-> 0]
    /\ DPIDMappingListener = << >>
    /\ upd = [pc |-> "idle"]
    /\ received = << >>
    /\ req = [pc |-> "idle"]
    /\ lst = [pc |-> "idle"]
    /\ injected = << >>

AuxIdle == EstIdle /\ LsnIdle /\ ApiIdle

Sessions == DOMAIN pc

NewMsg(p) ==
    [start |-> p, gotHdr |-> FALSE, hdr |-> NoHeader, ctl |-> << >>,
     ctlCalls |-> 0, ctlFailed |-> FALSE, teeCalls |-> 0, teeBuf |-> << >>,
     teeTo |-> << >>, teeBase |-> << >>, chunks |-> 0, readErr |-> FALSE, decoded |-> "none"]

\* history counters only tell none, one and more than one apart
Count(n) == min(n + 1, 2)

(* ---------------------------------------------------------------------- *)
(* App.handle: the pieces of the loop body                                *)
(* ---------------------------------------------------------------------- *)
\* a plausible slip: the header bytes already read are not subtracted
PassThroughLeftWhole(h) == h.Length % U16

\* left = header.Length - uint16(hCount)
PassThroughLeft(h) == SubU16(h.Length, HeaderLen)

\* a plausible slip: the sub-header bytes already read are not subtracted
PacketInLeftNoSub(h) == SubU16(h.Length, HeaderLen)

\* left = header.Length - uint16(hCount) - uint16(piCount)
PacketInLeft(h) == SubU16(SubU16(h.Length, HeaderLen), SubHdrLen)

\* len(buf[:min(int(left), BUFFER_SIZE)])
ReadRequest(l) == min(l, BUFFER_SIZE)

\* the loops run while left > 0
LoopAgain(l) == l > 0

\* packetIn.ReadFrom followed by packetIn.WriteTo: the sub-header bytes
PacketInBytes(sub) == sub

\* buffer.Reset(); header.WriteTo(buffer); packetIn.WriteTo(buffer)
PacketInBuffer(h, sub) == HeaderBytes(h) \o PacketInBytes(sub)

\* buffer.Bytes()[hCount+piCount:]
EmbeddedFrame(buf) == SubSeq(buf, HeaderLen + SubHdrLen + 1, Len(buf))

\* a plausible slip: the value is stored but its bit is not set
DerivedCriteriaNoBit(frame) == Criteria(BitEmpty, EthernetType(frame))

\* match = criteria.Criteria{Set: BIT_DL_TYPE, DlType: uint16(EthernetType)}
DerivedCriteria(frame) == Criteria(BitDLType, EthernetType(frame))

\* the bytes handle passes to one ConditionalWrite call: the whole buffer
TeeArg(buf, off) == SubSeq(buf, off + 1, Len(buf))

\* proxy.Write(b): the bytes reach the controller unless the connection is
\* broken; the error is dropped by the caller
ProxyWrite(s, b) ==
    /\ ctlOut' = [ctlOut EXCEPT ![s] = IF ctlUp[s] THEN @ \o b ELSE @]
    /\ cur' = [cur EXCEPT ![s].ctl = @ \o b, ![s].ctlCalls = Count(@),
                          ![s].ctlFailed = @ \/ ~ctlUp[s]]

Avail(s) == Len(stream[s]) - pos[s]

(* ---------------------------------------------------------------------- *)
(* App.handle: the loop head, lines 86-100 and 155-168                    *)
(* ---------------------------------------------------------------------- *)
\* header.ReadFrom; for a Packet-In message the loop then waits for the
\* sub-header, for any other message the header goes to the controller
ReadHeader(s) ==
    /\ ~crashed
    /\ pc[s] = "header"
    /\ UNCHANGED <<matchVars, auxVars, ctlNil, stream, match, teeIdx, teeOff, ctlUp, ctlIn,
                   devOut, copyPc, closed, epRule, teeOut, buffer>>
    /\ IF Avail(s) < HeaderLen
       THEN \* header.ReadFrom fails: break
            /\ pc' = [pc EXCEPT ![s] = "closed"]
            /\ pos' = [pos EXCEPT ![s] = Len(stream[s])]
            /\ cur' = [cur EXCEPT ![s] = NewMsg(pos[s])]
            /\ UNCHANGED <<header, left, ctlOut, crashed>>
       ELSE LET h == ParseHeader(Slice(stream[s], pos[s], HeaderLen))
                m == [NewMsg(pos[s]) EXCEPT !.gotHdr = TRUE, !.hdr = h]
            IN  /\ header' = [header EXCEPT ![s] = h]
                /\ pos' = [pos EXCEPT ![s] = @ + HeaderLen]
                /\ IF h.Type = TypePacketIn
                   THEN \* on to packetIn.ReadFrom
                        /\ pc' = [pc EXCEPT ![s] = "subheader"]
                        /\ cur' = [cur EXCEPT ![s] = m]
                        /\ UNCHANGED <<left, ctlOut, crashed>>
                   ELSE IF ctlNil[s]
                        THEN \* header.WriteTo(proxy) writes to the nil connection
                             /\ crashed' = TRUE
                             /\ pc' = [pc EXCEPT ![s] = "panic"]
                             /\ cur' = [cur EXCEPT ![s] = m]
                             /\ UNCHANGED <<left, ctlOut>>
                        ELSE \* header.WriteTo(proxy)
                             /\ ctlOut' = [ctlOut EXCEPT ![s] =
                                    IF ctlUp[s] THEN @ \o HeaderBytes(h) ELSE @]
                             /\ cur' = [cur EXCEPT ![s] =
                                    [m EXCEPT !.ctl = HeaderBytes(h), !.ctlCalls = 1,
                                              !.ctlFailed = ~ctlUp[s]]]
                             /\ left' = [left EXCEPT ![s] = PassThroughLeft(h)]
                             /\ pc' = [pc EXCEPT ![s] =
                                    IF LoopAgain(PassThroughLeft(h))
                                    THEN "passthrough" ELSE "header"]
                             /\ UNCHANGED crashed

(* ---------------------------------------------------------------------- *)
(* App.handle: the sub-header of a Packet-In message, lines 109-124       *)
(* ---------------------------------------------------------------------- *)
\* packetIn.ReadFrom, then the buffer is reset to the two headers and left
\* is set; until the sub-header arrives header is the new one and buffer
\* and left are those of the message before
ReadPacketIn(s) ==
    /\ ~crashed
    /\ pc[s] = "subheader"
    /\ UNCHANGED <<matchVars, auxVars, ctlNil, stream, header, match, teeIdx, teeOff, ctlUp,
                   ctlOut, ctlIn, devOut, copyPc, closed, epRule, teeOut, crashed>>
    /\ IF Avail(s) < SubHdrLen
       THEN \* packetIn.ReadFrom fails: break
            /\ pc' = [pc EXCEPT ![s] = "closed"]
            /\ pos' = [pos EXCEPT ![s] = Len(stream[s])]
            /\ cur' = [cur EXCEPT ![s].readErr = TRUE]
            /\ UNCHANGED <<left, buffer>>
       ELSE /\ buffer' = [buffer EXCEPT ![s] =
                   PacketInBuffer(header[s], Slice(stream[s], pos[s], SubHdrLen))]
            /\ left' = [left EXCEPT ![s] = PacketInLeft(header[s])]
            /\ pos' = [pos EXCEPT ![s] = @ + SubHdrLen]
            /\ pc' = [pc EXCEPT ![s] =
                   IF LoopAgain(PacketInLeft(header[s]))
                   THEN "packetin" ELSE "dispatch"]
            /\ UNCHANGED cur

(* ---------------------------------------------------------------------- *)
(* App.handle: one pass of the pass-through loop, lines 169-180           *)
(* ---------------------------------------------------------------------- *)
PassThroughRead(s) ==
    /\ ~crashed
    /\ pc[s] = "passthrough"
    /\ UNCHANGED <<matchVars, auxVars, ctlNil, stream, header, buffer, match, teeIdx, teeOff,
                   ctlUp, ctlIn, devOut, copyPc, closed, epRule, teeOut, crashed>>
    /\ IF Avail(s) = 0
       THEN \* reader.Read fails: break leaves the inner loop only
            /\ pc' = [pc EXCEPT ![s] = "header"]
            /\ cur' = [cur EXCEPT ![s].readErr = TRUE]
            /\ UNCHANGED <<pos, left, ctlOut>>
       ELSE \E count \in 1..min(ReadRequest(left[s]), Avail(s)) :
              /\ ProxyWrite(s, Slice(stream[s], pos[s], count))
              /\ pos' = [pos EXCEPT ![s] = @ + count]
              /\ left' = [left EXCEPT ![s] = SubU16(@, count)]
              /\ pc' = [pc EXCEPT ![s] =
                     IF LoopAgain(SubU16(left[s], count))
                     THEN "passthrough" ELSE "header"]

(* ---------------------------------------------------------------------- *)
(* App.handle: one pass of the Packet-In payload loop, lines 125-133      *)
(* ---------------------------------------------------------------------- *)
PacketInRead(s) ==
    /\ ~crashed
    /\ pc[s] = "packetin"
    /\ UNCHANGED <<matchVars, auxVars, ctlNil, stream, header, match, teeIdx, teeOff, ctlUp,
                   ctlOut, ctlIn, devOut, copyPc, closed, epRule, teeOut, crashed>>
    /\ IF Avail(s) = 0
       THEN \* reader.Read fails: break leaves the inner loop only
            /\ pc' = [pc EXCEPT ![s] = "dispatch"]
            /\ cur' = [cur EXCEPT ![s].readErr = TRUE]
            /\ UNCHANGED <<pos, left, buffer>>
       ELSE \E count \in 1..min(ReadRequest(left[s]), Avail(s)) :
              /\ buffer' = [buffer EXCEPT ![s] = @ \o Slice(stream[s], pos[s], count)]
              /\ pos' = [pos EXCEPT ![s] = @ + count]
              /\ left' = [left EXCEPT ![s] = SubU16(@, count)]
              /\ cur' = [cur EXCEPT ![s].chunks = Count(@)]
              /\ pc' = [pc EXCEPT ![s] =
                     IF LoopAgain(SubU16(left[s], count))
                     THEN "packetin" ELSE "dispatch"]

(* ---------------------------------------------------------------------- *)
(* App.handle: decode, forward and start the tee, lines 135-152           *)
(* ---------------------------------------------------------------------- *)
PacketInDispatch(s) ==
    /\ ~crashed
    /\ pc[s] = "dispatch"
    /\ UNCHANGED <<matchVars, auxVars, ctlNil, stream, pos, header, left, buffer, ctlUp, ctlIn,
                   devOut, copyPc, closed, epRule, teeOut>>
    /\ IF ~EthDecodes(EmbeddedFrame(buffer[s]))
       THEN \* pkt.Layer returns nil and eth.(*layers.Ethernet) panics
            /\ crashed' = TRUE
            /\ pc' = [pc EXCEPT ![s] = "panic"]
            /\ cur' = [cur EXCEPT ![s].decoded = "fail"]
            /\ UNCHANGED <<match, teeIdx, teeOff, ctlOut>>
       ELSE IF ctlNil[s]
       THEN \* proxy.Write writes to the nil connection
            /\ match' = [match EXCEPT ![s] = DerivedCriteria(EmbeddedFrame(buffer[s]))]
            /\ crashed' = TRUE
            /\ pc' = [pc EXCEPT ![s] = "panic"]
            /\ cur' = [cur EXCEPT ![s].decoded = "ok"]
            /\ UNCHANGED <<teeIdx, teeOff, ctlOut>>
       ELSE /\ match' = [match EXCEPT ![s] = DerivedCriteria(EmbeddedFrame(buffer[s]))]
            /\ ctlOut' = [ctlOut EXCEPT ![s] = IF ctlUp[s] THEN @ \o buffer[s] ELSE @]
            /\ cur' = [cur EXCEPT ![s].decoded = "ok",
                                  ![s].ctl = @ \o buffer[s],
                                  ![s].ctlCalls = Count(@),
                                  ![s].ctlFailed = @ \/ ~ctlUp[s],
                                  ![s].teeCalls = Count(@),
                                  ![s].teeBuf = buffer[s],
                                  ![s].teeBase = teeOut]
            /\ teeIdx' = [teeIdx EXCEPT ![s] = 1]
            /\ teeOff' = [teeOff EXCEPT ![s] = 0]
            /\ pc' = [pc EXCEPT ![s] = "tee"]
            /\ UNCHANGED crashed

(* ---------------------------------------------------------------------- *)
(* Endpoints.ConditionalWrite: one endpoint of the ordered list           *)
(* ---------------------------------------------------------------------- *)
\* ConditionalWrite invokes Write of endpoint e on b: teeOut records the
\* bytes of the calls made on the endpoint, in the order of the calls. Write
\* is a best-effort single write that may fail or take part of b only, and
\* ConditionalWrite goes on to the next endpoint whatever it returns, so the
\* outcome changes nothing in the session; what the destination receives of
\* the calls, and in which order when sessions share it, is not in the state
EndpointWrite(e, b) == teeOut' = [teeOut EXCEPT ![e] = @ \o b]

ConditionalWriteStep(s) ==
    /\ ~crashed
    /\ pc[s] = "tee"
    /\ UNCHANGED <<matchVars, auxVars, ctlNil, stream, pos, header, left, buffer, match, ctlUp,
                   ctlOut, ctlIn, devOut, copyPc, closed, epRule, crashed>>
    /\ IF teeIdx[s] > Len(epRule)
       THEN /\ pc' = [pc EXCEPT ![s] = "header"]
            /\ UNCHANGED <<teeIdx, teeOff, teeOut, cur>>
       ELSE IF Match(epRule[teeIdx[s]], match[s])
            THEN LET b == TeeArg(buffer[s], teeOff[s])
                     last == teeOff[s] + Len(b) >= Len(buffer[s])
                 IN  /\ EndpointWrite(teeIdx[s], b)
                     /\ cur' = [cur EXCEPT ![s].teeTo = @ \o <<teeIdx[s]>>]
                     /\ teeOff' = [teeOff EXCEPT ![s] =
                            IF last THEN 0 ELSE @ + Len(b)]
                     /\ teeIdx' = [teeIdx EXCEPT ![s] = IF last THEN @ + 1 ELSE @]
                     /\ UNCHANGED pc
            ELSE /\ teeIdx' = [teeIdx EXCEPT ![s] = @ + 1]
                 /\ UNCHANGED <<pc, teeOff, teeOut, cur>>

(* ---------------------------------------------------------------------- *)
(* go io.Copy(conn, proxy.Connection), line 82, and the controller        *)
(* ---------------------------------------------------------------------- *)
CopyChunk(s) ==
    /\ ~crashed
    /\ copyPc[s] = "copying"
    /\ ~ctlNil[s]
    /\ ctlUp[s] /\ ~closed[s].ctl
    /\ ctlIn[s] # << >>
    /\ devOut' = [devOut EXCEPT ![s] = Append(@, Head(ctlIn[s]))]
    /\ ctlIn' = [ctlIn EXCEPT ![s] = Tail(@)]
    /\ UNCHANGED <<matchVars, auxVars, ctlNil, stream, pos, pc, header, left, buffer, match,
                   teeIdx, teeOff, ctlUp, ctlOut, copyPc, closed, cur, epRule,
                   teeOut, crashed>>

\* io.Copy returns: the read of proxy.Connection ends (the controller is gone
\* or the session closed the socket), or a byte was read and the write to
\* conn fails, and the byte is lost. The write fails once the device has
\* closed or reset its connection, which it may have done whatever part of
\* its bytes handle has taken from reader so far
CopyEnd(s) ==
    /\ ~crashed
    /\ copyPc[s] = "copying"
    /\ ~ctlNil[s]
    /\ \/ /\ ~ctlUp[s] \/ closed[s].ctl
          /\ UNCHANGED ctlIn
       \/ /\ ctlUp[s] /\ ~closed[s].ctl
          /\ ctlIn[s] # << >>
          /\ ctlIn' = [ctlIn EXCEPT ![s] = Tail(@)]
    /\ copyPc' = [copyPc EXCEPT ![s] = "done"]
    /\ UNCHANGED <<matchVars, auxVars, ctlNil, stream, pos, pc, header, left, buffer, match,
                   teeIdx, teeOff, ctlUp, ctlOut, devOut, closed, cur,
                   epRule, teeOut, crashed>>

\* io.Copy reads from the nil proxy.Connection: the goroutine panics
CopyNil(s) ==
    /\ ~crashed
    /\ copyPc[s] = "copying"
    /\ ctlNil[s]
    /\ copyPc' = [copyPc EXCEPT ![s] = "panic"]
    /\ crashed' = TRUE
    /\ UNCHANGED <<matchVars, auxVars, ctlNil, stream, pos, pc, header, left, buffer, match,
                   teeIdx, teeOff, ctlUp, ctlOut, ctlIn, devOut, closed, cur,
                   epRule, teeOut>>

\* proxy.Connection, err = net.Dial("tcp", app.ProxyTo); the error is dropped,
\* the copy task is started and the loop is entered
Dial(s) ==
    /\ ~crashed
    /\ pc[s] = "dial"
    /\ \E ok \in BOOLEAN :
          /\ ctlNil' = [ctlNil EXCEPT ![s] = ~ok]
          /\ ctlUp' = [ctlUp EXCEPT ![s] = ok]
    /\ copyPc' = [copyPc EXCEPT ![s] = "copying"]
    /\ pc' = [pc EXCEPT ![s] = "header"]
    /\ UNCHANGED <<matchVars, auxVars, stream, pos, header, left, buffer, match, teeIdx,
                   teeOff, ctlOut, ctlIn, devOut, closed, cur, epRule, teeOut,
                   crashed>>

\* the controller connection breaks: later writes to it fail
CtlDrop(s) ==
    /\ ~crashed
    /\ ~ctlNil[s]
    /\ ctlUp[s]
    /\ ctlUp' = [ctlUp EXCEPT ![s] = FALSE]
    /\ UNCHANGED <<matchVars, auxVars, ctlNil, stream, pos, pc, header, left, buffer, match,
                   teeIdx, teeOff, ctlOut, ctlIn, devOut, copyPc, closed, cur,
                   epRule, teeOut, crashed>>

(* ---------------------------------------------------------------------- *)
(* Specification of one session                                           *)
(* ---------------------------------------------------------------------- *)
SessionInit(n) ==
    /\ pos = [s \in 1..n |-> 0]
    /\ pc = [s \in 1..n |-> "header"]
    /\ header = [s \in 1..n |-> NoHeader]
    /\ left = [s \in 1..n |-> 0]
    /\ buffer = [s \in 1..n |-> << >>]
    /\ match = [s \in 1..n |-> Criteria(BitEmpty, 0)]
    /\ teeIdx = [s \in 1..n |-> 0]
    /\ teeOff = [s \in 1..n |-> 0]
    /\ ctlNil = [s \in 1..n |-> FALSE]
    /\ ctlUp = [s \in 1..n |-> TRUE]
    /\ ctlOut = [s \in 1..n |-> << >>]
    /\ ctlIn = [s \in 1..n |-> <<7>>]
    /\ devOut = [s \in 1..n |-> << >>]
    /\ copyPc = [s \in 1..n |-> "copying"]
    /\ closed = [s \in 1..n |-> [dev |-> FALSE, ctl |-> FALSE]]
    /\ cur = [s \in 1..n |-> NewMsg(0)]
    /\ epRule \in EndpointConfigs
    /\ teeOut = [e \in 1..Len(epRule) |-> << >>]
    /\ crashed = FALSE

MatchIdle ==
    /\ mRule = RuleWild
    /\ mState = RuleWild
    /\ mResult = "pending"

Init ==
    /\ MatchIdle
    /\ AuxIdle
    /\ stream \in [1..1 -> Streams]
    /\ SessionInit(1)

Next ==
    \E s \in Sessions :
        \/ ReadHeader(s)
        \/ ReadPacketIn(s)
        \/ PassThroughRead(s)
        \/ PacketInRead(s)
        \/ PacketInDispatch(s)
        \/ ConditionalWriteStep(s)
        \/ CopyChunk(s)
        \/ CopyEnd(s)
        \/ CtlDrop(s)

Spec == Init /\ [][Next]_vars

(* ---------------------------------------------------------------------- *)
(* Specification of one session from the dial of the controller           *)
(* ---------------------------------------------------------------------- *)
\* at most one message, possibly cut short
DialStreams ==
    UNION {{SubSeq(m, 1, k) : k \in 0..Len(m)} : m \in Catalog}

DialInit ==
    /\ MatchIdle
    /\ AuxIdle
    /\ stream \in [1..1 -> DialStreams]
    /\ pos = <<0>>
    /\ pc = <<"dial">>
    /\ header = <<NoHeader>>
    /\ left = <<0>>
    /\ buffer = <<<< >>>>
    /\ match = <<Criteria(BitEmpty, 0)>>
    /\ teeIdx = <<0>>
    /\ teeOff = <<0>>
    /\ ctlNil = <<FALSE>>
    /\ ctlUp = <<FALSE>>
    /\ ctlOut = <<<< >>>>
    /\ ctlIn = <<<<7>>>>
    /\ devOut = <<<< >>>>
    /\ copyPc = <<"idle">>
    /\ closed = <<[dev |-> FALSE, ctl |-> FALSE]>>
    /\ cur = <<NewMsg(0)>>
    /\ epRule \in EndpointConfigs
    /\ teeOut = [e \in 1..Len(epRule) |-> << >>]
    /\ crashed = FALSE

DialNext ==
    \E s \in Sessions :
        \/ Dial(s)
        \/ CopyNil(s)
        \/ ReadHeader(s)
        \/ ReadPacketIn(s)
        \/ PassThroughRead(s)
        \/ PacketInRead(s)
        \/ PacketInDispatch(s)
        \/ ConditionalWriteStep(s)
        \/ CopyChunk(s)
        \/ CopyEnd(s)
        \/ CtlDrop(s)

DialSpec == DialInit /\ [][DialNext]_vars

(* ---------------------------------------------------------------------- *)
(* Specification of Criteria.Match on enumerated inputs                   *)
(* ---------------------------------------------------------------------- *)
\* no device is connected
SessIdle ==
    /\ stream = << >> /\ pos = << >> /\ pc = << >> /\ header = << >>
    /\ left = << >> /\ buffer = << >> /\ match = << >> /\ teeIdx = << >>
    /\ teeOff = << >> /\ ctlNil = << >> /\ ctlUp = << >> /\ ctlOut = << >> /\ ctlIn = << >>
    /\ devOut = << >> /\ copyPc = << >> /\ closed = << >> /\ cur = << >>
    /\ epRule = << >> /\ teeOut = << >> /\ crashed = FALSE

MatchInit ==
    /\ mRule \in CriteriaSet
    /\ mState \in CriteriaSet
    /\ mResult = "pending"
    /\ SessIdle
    /\ AuxIdle

DoMatch ==
    /\ mResult = "pending"
    /\ mResult' = IF Match(mRule, mState) THEN "true" ELSE "false"
    /\ UNCHANGED <<mRule, mState, sessVars, auxVars>>

MatchNext == DoMatch

MatchSpec == MatchInit /\ [][MatchNext]_vars

(* ---------------------------------------------------------------------- *)
(* Strings: a string is the sequence of its bytes, one character each     *)
(* ---------------------------------------------------------------------- *)
UpperCase == <<"A", "B", "C", "D", "E", "F", "G", "H", "I", "J", "K", "L", "M", "N", "O", "P", "Q", "R", "S", "T", "U", "V", "W", "X", "Y", "Z">>
LowerCase == <<"a", "b", "c", "d", "e", "f", "g", "h", "i", "j", "k", "l", "m", "n", "o", "p", "q", "r", "s", "t", "u", "v", "w", "x", "y", "z">>
Digits == <<"0", "1", "2", "3", "4", "5", "6", "7", "8", "9">>

IsUpper(c) == \E i \in DOMAIN UpperCase : UpperCase[i] = c
IsLower(c) == \E i \in DOMAIN LowerCase : LowerCase[i] = c
IsAlpha(c) == IsUpper(c) \/ IsLower(c)
IsDigit(c) == \E i \in DOMAIN Digits : Digits[i] = c

\* strings.ToLower
LowerByte(c) ==
    IF IsUpper(c)
    THEN LowerCase[CHOOSE i \in DOMAIN UpperCase : UpperCase[i] = c]
    ELSE c
ToLower(s) == [i \in DOMAIN s |-> LowerByte(s[i])]

\* strings.IndexByte, counted from 1; 0 when c does not occur in s
IndexByte(s, c) ==
    IF \E i \in DOMAIN s : s[i] = c
    THEN CHOOSE i \in DOMAIN s : s[i] = c /\ \A j \in 1..(i - 1) : s[j] # c
    ELSE 0

\* strings.LastIndexByte, counted from 1; 0 when c does not occur in s
LastIndexByte(s, c) ==
    IF \E i \in DOMAIN s : s[i] = c
    THEN CHOOSE i \in DOMAIN s : s[i] = c /\ \A j \in (i + 1)..Len(s) : s[j] # c
    ELSE 0

HasPrefix(s, p) == Len(p) <= Len(s) /\ SubSeq(s, 1, Len(p)) = p

\* the part of s before index i, all of s when i is 0
CutAt(s, i) == IF i = 0 THEN s ELSE SubSeq(s, 1, i - 1)

\* the part of s before the first c, all of s when c does not occur
CutBefore(s, c) == CutAt(s, IndexByte(s, c))

\* strings.Split(s, sep) for a separator of one byte: always one string at least
RECURSIVE Split(_, _)
\* the split of s whose first separator is at index i
SplitAt(s, c, i) ==
    IF i = 0
    THEN <<s>>
    ELSE <<SubSeq(s, 1, i - 1)>> \o Split(SubSeq(s, i + 1, Len(s)), c)

Split(s, c) == SplitAt(s, c, IndexByte(s, c))

(* ---------------------------------------------------------------------- *)
(* strconv.ParseUint(s, 0, bitSize)                                       *)
(* ---------------------------------------------------------------------- *)
\* the value of a digit or letter, 36 for any other byte
DigitVal(c) ==
    IF IsDigit(c) THEN (CHOOSE i \in DOMAIN Digits : Digits[i] = c) - 1
    ELSE IF IsAlpha(c)
         THEN (CHOOSE i \in DOMAIN LowerCase : LowerCase[i] = LowerByte(c)) + 9
         ELSE 36

\* the base a literal's prefix selects when the base argument is 0
PrefixBase(s) ==
    IF s[1] # "0" THEN 10
    ELSE IF Len(s) >= 3 /\ LowerByte(s[2]) = "b" THEN 2
    ELSE IF Len(s) >= 3 /\ LowerByte(s[2]) = "o" THEN 8
    ELSE IF Len(s) >= 3 /\ LowerByte(s[2]) = "x" THEN 16
    ELSE 8

\* the bytes left once the prefix has been taken off
PrefixRest(s) ==
    IF s[1] # "0" THEN s
    ELSE IF Len(s) >= 3 /\ LowerByte(s[2]) \in {"b", "o", "x"}
         THEN SubSeq(s, 3, Len(s))
         ELSE Tail(s)

\* a value of bitSize bits cannot hold n; literals of at most seven digits
\* cannot exceed 64 bits
Overflows(n, bitSize) == bitSize = 16 /\ n > U16 - 1

\* the digit loop: "syntax" on a byte that is no digit of the base,
\* "range" as soon as the value passes the largest one of bitSize bits
RECURSIVE ParseDigits(_, _, _, _)
ParseDigits(s, base, n, bitSize) ==
    IF s = << >> THEN [err |-> "nil", val |-> n]
    ELSE IF Head(s) = "_" THEN ParseDigits(Tail(s), base, n, bitSize)
    ELSE IF DigitVal(Head(s)) >= base THEN [err |-> "syntax", val |-> 0]
    ELSE IF Overflows(n * base + DigitVal(Head(s)), bitSize)
         THEN [err |-> "range", val |-> U16 - 1]
         ELSE ParseDigits(Tail(s), base, n * base + DigitVal(Head(s)), bitSize)

\* underscoreOK: an underscore may only separate digits or follow the prefix
RECURSIVE UnderscoreScan(_, _, _)
UnderscoreScan(s, saw, hex) ==
    IF s = << >> THEN saw # "_"
    ELSE IF IsDigit(Head(s)) \/ (hex /\ DigitVal(Head(s)) \in 10..15)
         THEN UnderscoreScan(Tail(s), "0", hex)
    ELSE IF Head(s) = "_"
         THEN saw = "0" /\ UnderscoreScan(Tail(s), "_", hex)
    ELSE saw # "_" /\ UnderscoreScan(Tail(s), "!", hex)

UnderscoreOK(s) ==
    IF Len(s) >= 2 /\ s[1] = "0" /\ LowerByte(s[2]) \in {"b", "o", "x"}
    THEN UnderscoreScan(SubSeq(s, 3, Len(s)), "0", LowerByte(s[2]) = "x")
    ELSE UnderscoreScan(s, "^", FALSE)

\* the result r of the digit loop, unless an underscore is misplaced
UnderscoreChecked(s, r) ==
    IF r.err = "nil" /\ IndexByte(s, "_") # 0 /\ ~UnderscoreOK(s)
    THEN [err |-> "syntax", val |-> 0]
    ELSE r

ParseUint(s, bitSize) ==
    IF s = << >> THEN [err |-> "syntax", val |-> 0]
    ELSE UnderscoreChecked(s, ParseDigits(PrefixRest(s), PrefixBase(s), 0, bitSize))

(* ---------------------------------------------------------------------- *)
(* url.Parse, as far as the scheme and the host of the result             *)
(* ---------------------------------------------------------------------- *)
\* getScheme stops at the first byte that cannot continue a scheme
SchemeStop(raw, i) ==
    /\ ~IsAlpha(raw[i])
    /\ ~(i > 1 /\ (IsDigit(raw[i]) \/ raw[i] \in {"+", "-", "."}))

SchemeEnd(raw) ==
    IF \E i \in DOMAIN raw : SchemeStop(raw, i)
    THEN CHOOSE i \in DOMAIN raw :
            SchemeStop(raw, i) /\ \A j \in 1..(i - 1) : ~SchemeStop(raw, j)
    ELSE 0

\* a scheme is the text before a ":" at e that only scheme bytes precede
HasSchemeAt(raw, e) == e > 1 /\ raw[e] = ":"
MissingSchemeAt(raw, e) == e = 1 /\ raw[1] = ":"

\* validOptionalPort of the text from the last ":" of the host on
ValidPort(host) ==
    \A i \in (LastIndexByte(host, ":") + 1)..Len(host) : IsDigit(host[i])

\* parseHost, for hosts without brackets, user information or escapes
HostOk(host) == LastIndexByte(host, ":") = 0 \/ ValidPort(host)

UrlError == [ok |-> FALSE, Scheme |-> << >>, Host |-> << >>]

\* the URL whose authority is host
UrlWithAuthority(scheme, host) ==
    IF HostOk(host)
    THEN [ok |-> TRUE, Scheme |-> ToLower(scheme), Host |-> host]
    ELSE UrlError

\* the URL after its scheme: rest has neither fragment nor query; a first
\* path segment with a colon is an error when there is no scheme, and the
\* authority is what follows "//" up to the next "/"
UrlAfterScheme(scheme, rest) ==
    IF ~HasPrefix(rest, <<"/">>) /\ scheme = << >>
          /\ IndexByte(CutBefore(rest, "/"), ":") # 0
    THEN UrlError
    ELSE IF HasPrefix(rest, <<"/", "/">>)
              /\ (scheme # << >> \/ ~HasPrefix(rest, <<"/", "/", "/">>))
    THEN UrlWithAuthority(scheme, CutBefore(SubSeq(rest, 3, Len(rest)), "/"))
    ELSE [ok |-> TRUE, Scheme |-> ToLower(scheme), Host |-> << >>]

\* the URL u without fragment, whose scheme scan stopped at e
UrlSplit(u, e) ==
    IF MissingSchemeAt(u, e) THEN UrlError
    ELSE IF HasSchemeAt(u, e)
    THEN UrlAfterScheme(SubSeq(u, 1, e - 1), CutBefore(SubSeq(u, e + 1, Len(u)), "?"))
    ELSE UrlAfterScheme(<< >>, CutBefore(u, "?"))

UrlNoFragment(u) == UrlSplit(u, SchemeEnd(u))

\* u, err = url.Parse(raw): ok is err == nil
UrlParse(raw) == UrlNoFragment(CutBefore(raw, "#"))

(* ---------------------------------------------------------------------- *)
(* App.EstablishEndpointConnections                                       *)
(* ---------------------------------------------------------------------- *)
TERM_ACTION == <<"a", "c", "t", "i", "o", "n">>
TERM_DL_TYPE == <<"d", "l", "_", "t", "y", "p", "e">>
SCHEME_TCP == <<"t", "c", "p">>
SCHEME_HTTP == <<"h", "t", "t", "p">>

\* an element of endpoints that was never assigned
NilConnection == [kind |-> "nil", dest |-> << >>, rule |-> Criteria(BitEmpty, 0)]

\* match.Set |= criteria.BIT_DL_TYPE
OrBitDLType(set) == IF AndBitDLType(set) > 0 THEN set ELSE set + BitDLType

\* match = criteria.Criteria{}
ResetCriteria(prev) == Criteria(BitEmpty, 0)

\* the loop over the terms of a specification with several segments;
\* terms[1] of a term without "=" is an index out of range
RECURSIVE ParseTerms(_, _, _)
\* match.Set |= criteria.BIT_DL_TYPE; match.DlType = uint16(ethType)
SetDlType(m, n) == Criteria(OrBitDLType(m.Set), n.val % U16)

\* case TERM_DL_TYPE, n the result of strconv.ParseUint; m2 the rule set
DlTypeTerm(parts, addr, m2, n) ==
    IF n.err # "nil"
    THEN [status |-> "error", addr |-> addr, match |-> m2]
    ELSE ParseTerms(Tail(parts), addr, m2)

\* the switch on the lower-cased key of the term terms
TermSwitch(parts, addr, m, terms, key) ==
    IF key = TERM_ACTION
    THEN ParseTerms(Tail(parts), terms[2], m)
    ELSE IF key = TERM_DL_TYPE
    THEN DlTypeTerm(parts, addr, SetDlType(m, ParseUint(terms[2], 16)), ParseUint(terms[2], 16))
    ELSE [status |-> "error", addr |-> addr, match |-> m]

ParseTerm(parts, addr, m, terms) ==
    IF Len(terms) < 2
    THEN [status |-> "panic", addr |-> addr, match |-> m]
    ELSE TermSwitch(parts, addr, m, terms, ToLower(terms[1]))

ParseTerms(parts, addr, m) ==
    IF parts = << >> THEN [status |-> "ok", addr |-> addr, match |-> m]
    ELSE ParseTerm(parts, addr, m, Split(Head(parts), "="))

\* address and rule of a specification cut into parts
ParseParts(spec, parts, m0) ==
    IF Len(parts) = 1
    THEN [status |-> "ok", addr |-> spec, match |-> m0]
    ELSE ParseTerms(parts, << >>, m0)

\* address and rule of one specification
ParseSpec(spec, prev) == ParseParts(spec, Split(spec, ";"), ResetCriteria(prev))

\* net.Dial("tcp", host) succeeds at the addresses that accept connections
DialOk(host, up) == host \in up

\* the tcp connection to host
ConnectTcp(host, m, up) ==
    IF DialOk(host, up)
    THEN [status |-> "ok", c |-> [kind |-> "tcp", dest |-> host, rule |-> m]]
    ELSE [status |-> "error", c |-> NilConnection]

\* the connection made for the parsed address u: the scheme selects the kind
ConnectUrl(addr, m, up, u) ==
    IF ~u.ok THEN [status |-> "error", c |-> NilConnection]
    ELSE IF ToLower(u.Scheme) = SCHEME_HTTP
    THEN [status |-> "ok", c |-> [kind |-> "http", dest |-> addr, rule |-> m]]
    ELSE IF ToLower(u.Scheme) = SCHEME_TCP
    THEN ConnectTcp(u.Host, m, up)
    ELSE ConnectTcp(addr, m, up)

Connect(addr, m, up) == ConnectUrl(addr, m, up, UrlParse(addr))

\* the end of the pass for specification i: r is its connection
PassConn(i, eps, p, r) ==
    IF r.status # "ok"
    THEN [status |-> "error", endpoints |-> << >>, match |-> p.match]
    ELSE [status |-> "ok", endpoints |-> [eps EXCEPT ![i] = r.c], match |-> p.match]

\* the pass for a specification that is not empty: p is its address and rule
PassSpec(i, eps, up, p) ==
    IF p.status # "ok"
    THEN [status |-> p.status, endpoints |-> << >>, match |-> p.match]
    ELSE PassConn(i, eps, p, Connect(p.addr, p.match, up))

\* one pass of the loop over app.TeeTo, for specification i: the list and
\* the rule it leaves, or the error or panic that ends the call
EstablishPass(specs, i, eps, m, up) ==
    IF Len(specs[i]) = 0
    THEN [status |-> "ok", endpoints |-> eps, match |-> m]
    ELSE PassSpec(i, eps, up, ParseSpec(specs[i], m))

\* the loop over app.TeeTo from specification i on; an error or a panic
\* returns no list
RECURSIVE EstablishFrom(_, _, _, _, _)
\* after the pass for specification i, q what the pass left
EstablishRest(specs, i, up, q) ==
    IF q.status # "ok" THEN [status |-> q.status, endpoints |-> << >>]
    ELSE EstablishFrom(specs, i + 1, q.endpoints, q.match, up)

EstablishFrom(specs, i, eps, m, up) ==
    IF i > Len(specs) THEN [status |-> "ok", endpoints |-> eps]
    ELSE EstablishRest(specs, i, up, EstablishPass(specs, i, eps, m, up))

\* endpoints := make([]connections.Connection, len(app.TeeTo))
NewEndpoints(specs) == [i \in 1..Len(specs) |-> NilConnection]

\* the whole call: the list is made, then the loop runs
Establish(specs, up) ==
    EstablishFrom(specs, 1, NewEndpoints(specs), Criteria(BitEmpty, 0), up)

(* ---------------------------------------------------------------------- *)
(* Endpoint specifications given to EstablishEndpointConnections          *)
(* ---------------------------------------------------------------------- *)
SpecEmpty == << >>

\* tcp://h:1
SpecTcp ==
    <<"t", "c", "p", ":", "/", "/", "h", ":", "1">>

\* h:1
SpecBare ==
    <<"h", ":", "1">>

\* dl_type=0x806;action=tcp://h:9
SpecArp ==
    <<"d", "l", "_", "t", "y", "p", "e", "=", "0", "x", "8", "0", "6", ";",
      "a", "c", "t", "i", "o", "n", "=", "t", "c", "p", ":", "/", "/", "h",
      ":", "9">>

\* action=tcp://h:9;DL_TYPE=2054
SpecArpRev ==
    <<"a", "c", "t", "i", "o", "n", "=", "t", "c", "p", ":", "/", "/", "h",
      ":", "9", ";", "D", "L", "_", "T", "Y", "P", "E", "=", "2", "0", "5",
      "4">>

\* dl_type=0x800;action=http://h/p?k=v
SpecHttp ==
    <<"d", "l", "_", "t", "y", "p", "e", "=", "0", "x", "8", "0", "0", ";",
      "a", "c", "t", "i", "o", "n", "=", "h", "t", "t", "p", ":", "/", "/",
      "h", "/", "p", "?", "k", "=", "v">>

\* foo=bar
SpecFoo ==
    <<"f", "o", "o", "=", "b", "a", "r">>

\* dl_type=0x806;foo=bar
SpecUnknown ==
    <<"d", "l", "_", "t", "y", "p", "e", "=", "0", "x", "8", "0", "6", ";",
      "f", "o", "o", "=", "b", "a", "r">>

\* dl_type=0x806;action
SpecNoEq ==
    <<"d", "l", "_", "t", "y", "p", "e", "=", "0", "x", "8", "0", "6", ";",
      "a", "c", "t", "i", "o", "n">>

\* dl_type=zz;action=tcp://h:9
SpecBadNum ==
    <<"d", "l", "_", "t", "y", "p", "e", "=", "z", "z", ";", "a", "c", "t",
      "i", "o", "n", "=", "t", "c", "p", ":", "/", "/", "h", ":", "9">>

\* dl_type=65536;action=tcp://h:9
SpecBigNum ==
    <<"d", "l", "_", "t", "y", "p", "e", "=", "6", "5", "5", "3", "6", ";",
      "a", "c", "t", "i", "o", "n", "=", "t", "c", "p", ":", "/", "/", "h",
      ":", "9">>

\* h:1
HostOne ==
    <<"h", ":", "1">>

\* h:9
HostNine ==
    <<"h", ":", "9">>

\* http://h/p?k=v
UrlHttp ==
    <<"h", "t", "t", "p", ":", "/", "/", "h", "/", "p", "?", "k", "=", "v">>

SpecCatalog ==
    {SpecEmpty, SpecTcp, SpecBare, SpecArp, SpecArpRev, SpecHttp, SpecFoo,
     SpecUnknown, SpecNoEq, SpecBadNum, SpecBigNum}

\* app.TeeTo: up to MaxSpecs specifications
SpecLists == UNION {[1..n -> SpecCatalog] : n \in 0..MaxSpecs}

\* the destinations that may accept a connection
ReachChoices == SUBSET {HostOne, HostNine}

EstInit ==
    /\ MatchIdle
    /\ SessIdle
    /\ TeeTo \in SpecLists
    /\ reach \in ReachChoices
    /\ estStatus = "pending"
    /\ estEndpoints = << >>
    /\ LsnIdle
    /\ ApiIdle

\* r is what EstablishEndpointConnections returned
Established(r) ==
    /\ estStatus' = r.status
    /\ estEndpoints' = r.endpoints

\* endpoints, err = app.EstablishEndpointConnections()
DoEstablish ==
    /\ estStatus = "pending"
    /\ Established(Establish(TeeTo, reach))
    /\ UNCHANGED <<matchVars, sessVars, lsnVars, apiVars, TeeTo, reach>>

EstNext == DoEstablish

EstSpec == EstInit /\ [][EstNext]_vars

(* ---------------------------------------------------------------------- *)
(* main and App.ListenAndServe                                            *)
(* ---------------------------------------------------------------------- *)
\* app.TeeTo of the listener specification
ListenConfigs == {<< >>, <<SpecTcp>>, <<SpecArp, SpecTcp>>, <<SpecNoEq>>}

\* app.endpoints before main assigns it
NoEndpoints == [id |-> 0, list |-> << >>]

\* a plausible slip: the negation of the mode flag is lost
DedicatedWhenShared(share) == share

\* if !app.ShareConnections: the connection gets a resolution of its own
Dedicated(share) == ~share

\* what one pass of the accept loop leaves behind for a connection
ConnRecord(outcome, eps) ==
    [outcome |-> outcome, listId |-> eps.id, list |-> eps.list,
     running |-> outcome = "session"]

ListenInit ==
    /\ MatchIdle
    /\ SessIdle
    /\ TeeTo \in ListenConfigs
    /\ reach = {}
    /\ estStatus = "idle"
    /\ estEndpoints = << >>
    /\ ShareConnections \in BOOLEAN
    /\ lsnPc = "main"
    /\ appEndpoints = NoEndpoints
    /\ resolutions = 0
    /\ conns = << >>
    /\ estCall = NoCall
    /\ ApiIdle

\* main with app.ShareConnections: r is what the resolution returned
MainResolved(r) ==
    /\ estStatus' = r.status
    /\ estEndpoints' = r.endpoints
    /\ resolutions' = resolutions + 1
    /\ appEndpoints' =
          IF r.status = "ok"
          THEN [id |-> resolutions + 1, list |-> r.endpoints]
          ELSE appEndpoints
    /\ lsnPc' = CASE r.status = "ok" -> "listen"
                  [] r.status = "error" -> "fatal"
                  [] OTHER -> "panic"
    /\ crashed' = (r.status = "panic")

\* main: in shared mode the endpoints are resolved before ListenAndServe,
\* and an error is fatal
MainResolve ==
    /\ lsnPc = "main"
    /\ IF ShareConnections
       THEN \E up \in ReachChoices :
               /\ reach' = up
               /\ MainResolved(Establish(TeeTo, up))
       ELSE /\ lsnPc' = "listen"
            /\ UNCHANGED <<reach, estStatus, estEndpoints, resolutions, appEndpoints,
                           crashed>>
    /\ UNCHANGED <<matchVars, handleVars, apiVars, TeeTo, ShareConnections, conns, estCall>>

\* net.Listen: an error is fatal
Listen ==
    /\ lsnPc = "listen"
    /\ \E ok \in BOOLEAN : lsnPc' = IF ok THEN "accept" ELSE "fatal"
    /\ UNCHANGED <<matchVars, sessVars, apiVars, estVars, ShareConnections, appEndpoints,
                   resolutions, conns, estCall>>

\* app.listener.Accept returns an error: logged, and the loop continues
AcceptError ==
    /\ lsnPc = "accept"
    /\ Len(conns) < MaxConns
    /\ conns' = Append(conns, ConnRecord("accept-error", NoEndpoints))
    /\ UNCHANGED <<matchVars, sessVars, apiVars, estVars, ShareConnections, lsnPc,
                   appEndpoints, resolutions, estCall>>

\* app.listener.Accept returns a connection: in shared mode the session is
\* spawned on app.endpoints, in dedicated mode the loop enters
\* EstablishEndpointConnections for this connection
Accept ==
    /\ lsnPc = "accept"
    /\ Len(conns) < MaxConns
    /\ IF Dedicated(ShareConnections)
       THEN /\ lsnPc' = "resolve"
            /\ estCall' = [i |-> 1, endpoints |-> NewEndpoints(TeeTo),
                           match |-> Criteria(BitEmpty, 0)]
            /\ UNCHANGED conns
       ELSE /\ conns' = Append(conns, ConnRecord("session", appEndpoints))
            /\ UNCHANGED <<lsnPc, estCall>>
    /\ UNCHANGED <<matchVars, sessVars, apiVars, estVars, ShareConnections, appEndpoints,
                   resolutions>>

\* the call for the accepted connection returns r: the session is spawned
\* on the list, or the error is logged and the loop continues
AcceptResolved(r) ==
    /\ estStatus' = r.status
    /\ estEndpoints' = r.endpoints
    /\ resolutions' = resolutions + 1
    /\ conns' = Append(conns,
          CASE r.status = "ok" ->
                  ConnRecord("session", [id |-> resolutions + 1, list |-> r.endpoints])
            [] r.status = "error" -> ConnRecord("dropped", NoEndpoints)
            [] OTHER -> ConnRecord("panic", NoEndpoints))
    /\ lsnPc' = IF r.status = "panic" THEN "panic" ELSE "accept"
    /\ crashed' = (r.status = "panic")
    /\ estCall' = NoCall

\* q is what the pass for specification estCall.i left: the call goes on to
\* the next specification, or it ends in an error or a panic
ResolvePassed(q) ==
    IF q.status = "ok"
    THEN /\ estCall' = [i |-> estCall.i + 1, endpoints |-> q.endpoints,
                        match |-> q.match]
         /\ UNCHANGED <<estStatus, estEndpoints, resolutions, conns, lsnPc, crashed>>
    ELSE AcceptResolved([status |-> q.status, endpoints |-> << >>])

\* dedicated mode: one pass of the loop of EstablishEndpointConnections, with
\* its net.Dial; the sessions spawned before run meanwhile
ResolvePass ==
    /\ lsnPc = "resolve"
    /\ estCall.i <= Len(TeeTo)
    /\ \E up \in ReachChoices :
          /\ reach' = up
          /\ ResolvePassed(EstablishPass(TeeTo, estCall.i, estCall.endpoints,
                                         estCall.match, up))
    /\ UNCHANGED <<matchVars, handleVars, apiVars, TeeTo, ShareConnections, appEndpoints>>

\* dedicated mode: the loop is over, the call returns its list and
\* go app.handle(conn, endpoints)
ResolveReturn ==
    /\ lsnPc = "resolve"
    /\ estCall.i > Len(TeeTo)
    /\ AcceptResolved([status |-> "ok", endpoints |-> estCall.endpoints])
    /\ UNCHANGED <<matchVars, handleVars, apiVars, TeeTo, reach, ShareConnections,
                   appEndpoints>>

\* app.handle of a spawned session returns
SessionEnd(c) ==
    /\ ~crashed
    /\ conns[c].running
    /\ conns' = [conns EXCEPT ![c].running = FALSE]
    /\ UNCHANGED <<matchVars, sessVars, apiVars, estVars, ShareConnections, lsnPc,
                   appEndpoints, resolutions, estCall>>

\* app.handle of a spawned session, or its io.Copy task, panics (the type
\* assertion on a frame that did not decode, a write to or a read of the nil
\* proxy.Connection): nothing recovers, so the process ends, and with it
\* every session and the accept loop
SessionPanic(c) ==
    /\ ~crashed
    /\ conns[c].running
    /\ crashed' = TRUE
    /\ lsnPc' = "panic"
    /\ conns' = [d \in DOMAIN conns |-> [conns[d] EXCEPT !.running = FALSE]]
    /\ UNCHANGED <<matchVars, handleVars, apiVars, estVars, ShareConnections,
                   appEndpoints, resolutions, estCall>>

ListenNext ==
    \/ MainResolve
    \/ Listen
    \/ AcceptError
    \/ Accept
    \/ ResolvePass
    \/ ResolveReturn
    \/ \E c \in DOMAIN conns : SessionEnd(c)
    \/ \E c \in DOMAIN conns : SessionPanic(c)

ListenSpec == ListenInit /\ [][ListenNext]_vars

(* ---------------------------------------------------------------------- *)
(* package api: the mapping of device ids to injectors and its handlers  *)
(* ---------------------------------------------------------------------- *)
MapActionNone == 0
MapActionAdd == 1
MapActionDelete == 2

\* the values of the {dpid} path variable of a request: "1", "0x2", "zz"
DpidStrs == {<<"1">>, <<"0", "x", "2">>, <<"z", "z">>}
\* the device ids and injectors of the mapping events
Dpids == {1, 2}
Injectors == {"i1", "i2"}
\* the body of the request
RequestBody == <<1, 2>>

\* the DPIDMapping values sent on the channel
Mapping(action, dpid, inj) == [Action |-> action, DPID |-> dpid, Inject |-> inj]
MappingEvents ==
    {Mapping(MapActionAdd, d, i) : d \in Dpids, i \in Injectors}
        \cup {Mapping(MapActionDelete, d, "nil") : d \in Dpids}
        \cup {Mapping(MapActionNone, 1, "nil")}
EventSeqs == UNION {[1..n -> MappingEvents] : n \in 0..MaxEvents}

\* make(map[uint64]injector.Injector)
EmptyMap == [k \in {} |-> "nil"]

\* a plausible slip: an add keeps the injector already registered
MapAddIfAbsent(m, k, v) ==
    [x \in DOMAIN m \cup {k} |-> IF x \in DOMAIN m THEN m[x] ELSE v]

\* api.injectors[mapping.DPID] = mapping.Inject
MapAdd(m, k, v) == [x \in DOMAIN m \cup {k} |-> IF x = k THEN v ELSE m[x]]

\* delete(api.injectors, mapping.DPID)
MapDelete(m, k) == [x \in DOMAIN m \ {k} |-> m[x]]

\* inject, ok := api.injectors[dpid]
MapLookup(m, k) ==
    IF k \in DOMAIN m THEN [inject |-> m[k], ok |-> TRUE]
    ELSE [inject |-> "nil", ok |-> FALSE]

\* a plausible slip: the request goes on without an injector
NotFoundNever(ok) == FALSE

\* if !ok
NotFound(ok) == ~ok

\* the mapping events the update task has finished with
AppliedCount == IF upd.pc = "recv" THEN Len(received) ELSE Len(received) - 1

NewRequest(str) ==
    [pc |-> "parse", dpidStr |-> str, dpid |-> 0, inject |-> "nil",
     at |-> 0, resp |-> "none"]

ApiIdleRest ==
    /\ MatchIdle
    /\ SessIdle
    /\ EstIdle
    /\ LsnIdle

ApiInit ==
    /\ ApiIdleRest
    /\ injectors = EmptyMap
    /\ lock = [w |-> FALSE, r |-> 0]
    /\ DPIDMappingListener \in EventSeqs
    /\ upd = [pc |-> "recv", mapping |-> Mapping(MapActionNone, 1, "nil")]
    /\ received = << >>
    /\ req \in {NewRequest(str) : str \in DpidStrs}
    /\ lst = [pc |-> "rlock", keys |-> {}, at |-> 0]
    /\ injected = << >>

\* mapping := <-api.DPIDMappingListener; an action that is neither add nor
\* delete is logged and the loop receives again
UpdRecv ==
    /\ upd.pc = "recv"
    /\ DPIDMappingListener # << >>
    /\ DPIDMappingListener' = Tail(DPIDMappingListener)
    /\ received' = Append(received, Head(DPIDMappingListener))
    /\ upd' = [pc |-> IF Head(DPIDMappingListener).Action
                            \in {MapActionAdd, MapActionDelete}
                      THEN "lock" ELSE "recv",
               mapping |-> Head(DPIDMappingListener)]
    /\ UNCHANGED <<matchVars, sessVars, estVars, lsnVars, injectors, lock, req,
                   lst, injected>>

\* api.lock.Lock() waits for the readers to leave
UpdLock ==
    /\ upd.pc = "lock"
    /\ ~lock.w /\ lock.r = 0
    /\ lock' = [lock EXCEPT !.w = TRUE]
    /\ upd' = [upd EXCEPT !.pc = "held"]
    /\ UNCHANGED <<matchVars, sessVars, estVars, lsnVars, injectors,
                   DPIDMappingListener, received, req, lst, injected>>

\* the assignment or the delete, and api.lock.Unlock()
UpdApply ==
    /\ upd.pc = "held"
    /\ injectors' =
          IF upd.mapping.Action = MapActionAdd
          THEN MapAdd(injectors, upd.mapping.DPID, upd.mapping.Inject)
          ELSE MapDelete(injectors, upd.mapping.DPID)
    /\ lock' = [lock EXCEPT !.w = FALSE]
    /\ upd' = [upd EXCEPT !.pc = "recv"]
    /\ UNCHANGED <<matchVars, sessVars, estVars, lsnVars, DPIDMappingListener,
                   received, req, lst, injected>>

\* PacketOutHandler: strconv.ParseUint(vars["dpid"], 0, 64), 404 on an error
ReqParse ==
    /\ req.pc = "parse"
    /\ req' = IF ParseUint(req.dpidStr, 64).err # "nil"
              THEN [req EXCEPT !.pc = "done", !.resp = "404"]
              ELSE [req EXCEPT !.pc = "rlock",
                               !.dpid = ParseUint(req.dpidStr, 64).val]
    /\ UNCHANGED <<matchVars, sessVars, estVars, lsnVars, injectors, lock,
                   DPIDMappingListener, upd, received, lst, injected>>

\* api.lock.RLock() waits for the writer to leave
ReqRLock ==
    /\ req.pc = "rlock"
    /\ ~lock.w
    /\ lock' = [lock EXCEPT !.r = @ + 1]
    /\ req' = [req EXCEPT !.pc = "lookup"]
    /\ UNCHANGED <<matchVars, sessVars, estVars, lsnVars, injectors,
                   DPIDMappingListener, upd, received, lst, injected>>

\* the lookup, api.lock.RUnlock(), and 404 when the id is not in the mapping
ReqLookup ==
    /\ req.pc = "lookup"
    /\ lock' = [lock EXCEPT !.r = @ - 1]
    /\ req' = IF NotFound(MapLookup(injectors, req.dpid).ok)
              THEN [req EXCEPT !.pc = "done", !.resp = "404", !.at = AppliedCount]
              ELSE [req EXCEPT !.pc = "read", !.at = AppliedCount,
                               !.inject = MapLookup(injectors, req.dpid).inject]
    /\ UNCHANGED <<matchVars, sessVars, estVars, lsnVars, injectors,
                   DPIDMappingListener, upd, received, lst, injected>>

\* ioutil.ReadAll(req.Body): 500 on an error
ReqRead ==
    /\ req.pc = "read"
    /\ \E ok \in BOOLEAN :
          req' = IF ok THEN [req EXCEPT !.pc = "inject"]
                 ELSE [req EXCEPT !.pc = "done", !.resp = "500"]
    /\ UNCHANGED <<matchVars, sessVars, estVars, lsnVars, injectors, lock,
                   DPIDMappingListener, upd, received, lst, injected>>

\* inject.Inject(data); the call is recorded with whether the injector is
\* the one registered for the id when it is called
ReqInject ==
    /\ req.pc = "inject"
    /\ injected' = Append(injected,
          [inject |-> req.inject, dpid |-> req.dpid, data |-> RequestBody,
           at |-> req.at,
           live |-> MapLookup(injectors, req.dpid) = [inject |-> req.inject, ok |-> TRUE]])
    /\ req' = [req EXCEPT !.pc = "done", !.resp = "200"]
    /\ UNCHANGED <<matchVars, sessVars, estVars, lsnVars, injectors, lock,
                   DPIDMappingListener, upd, received, lst>>

\* ListDevicesHandler: api.lock.RLock()
LstRLock ==
    /\ lst.pc = "rlock"
    /\ ~lock.w
    /\ lock' = [lock EXCEPT !.r = @ + 1]
    /\ lst' = [lst EXCEPT !.pc = "range"]
    /\ UNCHANGED <<matchVars, sessVars, estVars, lsnVars, injectors,
                   DPIDMappingListener, upd, received, req, injected>>

\* ListDevicesHandler: the loop over the keys and api.lock.RUnlock()
LstRange ==
    /\ lst.pc = "range"
    /\ lock' = [lock EXCEPT !.r = @ - 1]
    /\ lst' = [pc |-> "done", keys |-> DOMAIN injectors, at |-> AppliedCount]
    /\ UNCHANGED <<matchVars, sessVars, estVars, lsnVars, injectors,
                   DPIDMappingListener, upd, received, req, injected>>

ApiNext ==
    \/ UpdRecv
    \/ UpdLock
    \/ UpdApply
    \/ ReqParse
    \/ ReqRLock
    \/ ReqLookup
    \/ ReqRead
    \/ ReqInject
    \/ LstRLock
    \/ LstRange

ApiSpec == ApiInit /\ [][ApiNext]_vars

(* ---------------------------------------------------------------------- *)
(* Properties                                                             *)
(* ---------------------------------------------------------------------- *)
\* the field dl_type is constrained by criteria c
HasDlType(c) == (c.Set \div BitDLType) % 2 = 1

\* the bytes of the message cur[s] is about, as the device sent them
Declared(s) == Slice(stream[s], cur[s].start, cur[s].hdr.Length)

NonPacketIn(s) == cur[s].gotHdr /\ cur[s].hdr.Type # TypePacketIn
IsPacketIn(s) == cur[s].gotHdr /\ cur[s].hdr.Type = TypePacketIn

\* the declared length covers the bytes read before the body
WellFramed(s) ==
    cur[s].hdr.Length >=
        IF cur[s].hdr.Type = TypePacketIn THEN HeaderLen + SubHdrLen ELSE HeaderLen

\* C1: Match(R, S) is true exactly when the dl_type field, if R constrains
\* it, is also set in S with an equal value; a rule that constrains nothing
\* matches every state and bits set only in S never cause a mismatch.
C1_MatchIsRuleSubset ==
    mResult # "pending" =>
        /\ (mResult = "true") <=>
              (HasDlType(mRule) => HasDlType(mState) /\ mRule.DlType = mState.DlType)
        /\ ~HasDlType(mRule) => mResult = "true"

C1_Witness ==
    /\ mResult = "false"
    /\ HasDlType(mRule) /\ HasDlType(mState)
    /\ mRule.DlType # mState.DlType

\* C2: a non-Packet-In message of declared length L (at least the header)
\* that arrives in full is handed to the controller as exactly its L bytes,
\* exactly L bytes are consumed, and ConditionalWrite is never invoked for a
\* non-Packet-In message.
C2_PassThroughFidelity ==
    \A s \in Sessions :
        NonPacketIn(s) =>
            /\ cur[s].teeCalls = 0 /\ cur[s].teeTo = << >>
            /\ (pc[s] = "header" /\ ~cur[s].readErr /\ WellFramed(s)) =>
                  /\ cur[s].ctl = Declared(s)
                  /\ pos[s] = cur[s].start + cur[s].hdr.Length
                  /\ ctlUp[s] => ctlOut[s] = SubSeq(stream[s], 1, pos[s])

C2_Witness ==
    \E s \in Sessions :
        /\ NonPacketIn(s) /\ pc[s] = "header" /\ ~cur[s].readErr
        /\ cur[s].hdr.Length > HeaderLen
        /\ cur[s].ctl = Declared(s)
        /\ Len(stream[s]) > pos[s]
        /\ \A e \in DOMAIN teeOut : teeOut[e] = << >>

\* the rule admits a frame of link type t
Admits(rule, t) == ~HasDlType(rule) \/ rule.DlType = t

\* C3: a Packet-In message whose frame decodes to link type T is written
\* once to the controller and once, whole, to every endpoint whose rule
\* admits T (wildcard rules included), in registration order; an endpoint
\* whose rule constrains dl_type to another value receives nothing.
C3_TeeFidelity ==
    \A s \in Sessions :
        cur[s].decoded = "ok" =>
            LET T == match[s].DlType
                msg == buffer[s]
            IN  /\ IsPacketIn(s)
                /\ T = EthernetType(EmbeddedFrame(msg))
                /\ cur[s].ctlCalls = 1 /\ cur[s].ctl = msg
                /\ cur[s].teeCalls = 1 /\ cur[s].teeBuf = msg
                /\ (~cur[s].readErr /\ WellFramed(s)) => msg = Declared(s)
                /\ \A e \in DOMAIN teeOut :
                       ~Admits(epRule[e], T) => teeOut[e] = cur[s].teeBase[e]
                /\ pc[s] = "header" =>
                       \A e \in DOMAIN teeOut :
                           Admits(epRule[e], T) =>
                               teeOut[e] = cur[s].teeBase[e] \o msg

C3_Witness ==
    \E s \in Sessions :
        /\ cur[s].decoded = "ok" /\ pc[s] = "header"
        /\ match[s].DlType = EthIPv4
        /\ cur[s].teeTo = <<1, 2>>
        /\ teeOut[1] = MsgPacketInIPv4 /\ teeOut[2] = MsgPacketInIPv4
        /\ teeOut[3] = << >>
        /\ ctlOut[s] = MsgPacketInIPv4

\* C4: however the payload of a Packet-In message (declared length at least
\* header + sub-header) is split into reads, if no read fails the buffer
\* handed to the controller write and to ConditionalWrite is header +
\* sub-header + the declared payload bytes in arrival order, and no byte of
\* the next message is consumed.
C4_ChunkedReassembly ==
    \A s \in Sessions :
        (IsPacketIn(s) /\ ~cur[s].readErr /\ WellFramed(s)) =>
            /\ pc[s] \in {"dispatch", "tee", "panic"} =>
                  /\ buffer[s] = Declared(s)
                  /\ pos[s] = cur[s].start + cur[s].hdr.Length
            /\ pc[s] = "tee" =>
                  /\ cur[s].ctl = Declared(s)
                  /\ cur[s].teeBuf = Declared(s)
            /\ pc[s] = "packetin" =>
                  /\ buffer[s] = Slice(stream[s], cur[s].start, pos[s] - cur[s].start)
                  /\ pos[s] < cur[s].start + cur[s].hdr.Length

C4_Witness ==
    \E s \in Sessions :
        /\ IsPacketIn(s) /\ ~cur[s].readErr /\ pc[s] = "tee"
        /\ cur[s].chunks = 2
        /\ cur[s].teeBuf = MsgPacketInIPv4
        /\ Len(stream[s]) > pos[s]

\* C5: a Packet-In message whose frame cannot be decoded does not crash the
\* session: it is written to the controller and the session goes on.
C5_DecodeFailureDegrades ==
    \A s \in Sessions :
        (IsPacketIn(s) /\ WellFramed(s) /\ ~cur[s].readErr
             /\ cur[s].decoded = "fail") =>
            /\ ~crashed
            /\ pc[s] # "panic"
            /\ cur[s].ctl = buffer[s]

\* C7: the bytes the controller receives from a session are the bytes of
\* the device's messages in arrival order: always a prefix of the device
\* stream, and at each return to the loop head with the controller up, all
\* of the bytes consumed so far.
C7_ControllerOrder ==
    \A s \in Sessions :
        /\ IsPrefix(ctlOut[s], stream[s])
        /\ (pc[s] = "header" /\ ctlUp[s]) => ctlOut[s] = SubSeq(stream[s], 1, pos[s])

C7_Witness ==
    \E s \in Sessions :
        /\ pc[s] = "header"
        /\ ctlOut[s] = MsgPacketInIPv4 \o MsgEcho
        /\ cur[s].ctl = MsgEcho

\* C8: when the read loop has terminated, the device socket and the
\* controller socket of the session are closed.
C8_ClosedOnTermination ==
    \A s \in Sessions :
        pc[s] = "closed" => closed[s].dev /\ closed[s].ctl

\* C9: a read failure in the body of a message is terminal: the session
\* does not return to the loop head, and a partially read Packet-In message
\* is written neither to the controller nor to a tee endpoint.
C9_BodyReadErrorTerminal ==
    \A s \in Sessions :
        (cur[s].readErr /\ WellFramed(s)) =>
            /\ pc[s] = "closed"
            /\ IsPacketIn(s) => cur[s].ctlCalls = 0 /\ cur[s].teeCalls = 0

\* C10: after a failed write to the controller the session has aborted: it
\* is at no point of the loop from which it reads or writes again.
C10_WriteFailureAborts ==
    \A s \in Sessions :
        (cur[s].ctlFailed /\ WellFramed(s)) => pc[s] = "closed"

\* C11: the bytes consumed for a message never exceed its declared length;
\* a declared length smaller than the bytes already read is a framing error
\* that closes the session, not a wrapped 16-bit count of bytes to read.
C11_DeclaredLengthBounds ==
    \A s \in Sessions :
        cur[s].gotHdr =>
            /\ WellFramed(s) => pos[s] - cur[s].start <= cur[s].hdr.Length
            /\ (~WellFramed(s) /\ pc[s] # "subheader") =>
                  /\ pc[s] = "closed"
                  /\ left[s] <= cur[s].hdr.Length

\* C20: a session whose dial of the controller failed terminates without
\* reading a device message and without a crash: neither the copy task nor
\* the read loop runs against the connection that was not established.
C20_DialFailureTerminates ==
    \A s \in Sessions :
        ctlNil[s] =>
            /\ ~crashed
            /\ pc[s] = "closed"
            /\ pos[s] = 0
            /\ copyPc[s] \in {"idle", "done"}

(* ---------------------------------------------------------------------- *)
(* Properties of EstablishEndpointConnections                             *)
(* ---------------------------------------------------------------------- *)
\* what the grammar of the specifications says each well-formed one means
SpecMeaning ==
    {[text |-> SpecTcp, c |-> [kind |-> "tcp", dest |-> HostOne, rule |-> RuleWild]],
     [text |-> SpecBare, c |-> [kind |-> "tcp", dest |-> HostOne, rule |-> RuleWild]],
     [text |-> SpecArp, c |-> [kind |-> "tcp", dest |-> HostNine, rule |-> RuleARP]],
     [text |-> SpecArpRev, c |-> [kind |-> "tcp", dest |-> HostNine, rule |-> RuleARP]],
     [text |-> SpecHttp, c |-> [kind |-> "http", dest |-> UrlHttp, rule |-> RuleIPv4]]}

\* the specifications with a bad term
BadSpecs == {SpecFoo, SpecUnknown, SpecNoEq, SpecBadNum, SpecBigNum}

IsLive(c) == c.kind # "nil"

\* the endpoints of the returned list that are connections
LiveEndpoints == SelectSeq(estEndpoints, IsLive)

\* the place of specification i among the specifications that are not empty
Rank(i) == Cardinality({j \in 1..i : TeeTo[j] # SpecEmpty})

EstReturned == estStatus \in {"ok", "error", "panic"}

\* C12: in a list that resolved, the endpoint of a single-segment
\* specification has that segment's address and the wildcard rule, the
\* endpoint of a multi-segment one has the value of its action term and the
\* dl_type rule of its dl_type term in either order of the terms, and no rule
\* carries over to the endpoint of a following specification.
C12_SpecParsing ==
    estStatus = "ok" =>
        \A i \in DOMAIN TeeTo :
            \A w \in SpecMeaning :
                TeeTo[i] = w.text =>
                    /\ Rank(i) <= Len(LiveEndpoints)
                    /\ LiveEndpoints[Rank(i)] = w.c

\* C13: a list holding a specification with an unknown key, a term without
\* "=" or a dl_type that is no 16-bit literal ends in an error returned to the
\* caller with no list; it never crashes and never returns a list.
C13_BadTermIsConfigError ==
    (EstReturned /\ \E i \in DOMAIN TeeTo : TeeTo[i] \in BadSpecs) =>
        /\ estStatus = "error"
        /\ estEndpoints = << >>

\* C14: the list returned on success holds exactly one live endpoint for each
\* specification that is not empty and no nil slot for an empty one.
C14_NoEmptySlot ==
    estStatus = "ok" =>
        /\ Len(estEndpoints) = Cardinality({i \in DOMAIN TeeTo : TeeTo[i] # SpecEmpty})
        /\ \A j \in DOMAIN estEndpoints : IsLive(estEndpoints[j])

(* ---------------------------------------------------------------------- *)
(* Properties of main and App.ListenAndServe                              *)
(* ---------------------------------------------------------------------- *)
HasSession(c) == conns[c].outcome = "session"

\* the connections before c, c included, that Accept returned without error
AcceptedUpTo(c) == Cardinality({d \in 1..c : conns[d].outcome # "accept-error"})

\* C15: once the listener accepts, it keeps accepting: an accept error and a
\* failed resolution in dedicated mode leave it in the accept loop (accepting,
\* or resolving the endpoints of the connection it accepted), the
\* connection concerned has no session, and a later session has a resolution
\* of its own, whether or not the sessions spawned before it still run.
C15_AcceptLoopNeverStops ==
    /\ conns # << >> => lsnPc \in {"accept", "resolve"}
    /\ \A c \in DOMAIN conns :
          /\ ~HasSession(c) => ~conns[c].running /\ conns[c].listId = 0
          /\ (HasSession(c) /\ ~ShareConnections) =>
                \A d \in 1..(c - 1) : conns[d].listId # conns[c].listId

\* C17: in shared mode the endpoints are resolved once, before the listener
\* accepts, every session holds that list, and a failed resolution ends the
\* process with no connection accepted; in dedicated mode every session holds
\* the list resolved for its own connection and no two sessions hold the same.
C17_ResolutionScope ==
    IF ShareConnections
    THEN /\ resolutions <= 1
         /\ lsnPc \in {"listen", "accept"} => resolutions = 1 /\ appEndpoints.id = 1
         /\ conns # << >> => appEndpoints.id = 1
         /\ (resolutions = 1 /\ appEndpoints.id = 0) =>
                lsnPc \in {"fatal", "panic"} /\ conns = << >>
         /\ \A c \in DOMAIN conns :
                HasSession(c) =>
                    /\ conns[c].listId = appEndpoints.id
                    /\ conns[c].list = appEndpoints.list
    ELSE /\ appEndpoints = NoEndpoints
         /\ resolutions = AcceptedUpTo(Len(conns))
         /\ \A c \in DOMAIN conns :
                HasSession(c) =>
                    /\ conns[c].listId = AcceptedUpTo(c)
                    /\ \A d \in DOMAIN conns :
                          d # c => conns[d].listId # conns[c].listId

\* two sessions of a shared-mode listener hold the list resolved at startup
C17_Witness ==
    /\ ShareConnections
    /\ Len(conns) = 2
    /\ HasSession(1) /\ HasSession(2)
    /\ appEndpoints.list # << >>

(* ---------------------------------------------------------------------- *)
(* Properties of package api                                              *)
(* ---------------------------------------------------------------------- *)
\* the device ids the path variables that are 64-bit literals stand for
DpidMeaning == {[text |-> <<"1">>, dpid |-> 1], [text |-> <<"0", "x", "2">>, dpid |-> 2]}

\* the last add or delete for device id k among the events evs, 0 if none
LastFor(evs, k) ==
    LET hits == {i \in DOMAIN evs :
                    evs[i].DPID = k /\ evs[i].Action \in {MapActionAdd, MapActionDelete}}
    IN  IF hits = {} THEN 0 ELSE CHOOSE i \in hits : \A j \in hits : j <= i

\* the mapping the events evs stand for: an id is registered when the last
\* add or delete for it is an add, with the injector of that add
Expected(evs) ==
    [k \in {d \in Dpids : LastFor(evs, d) # 0 /\ evs[LastFor(evs, d)].Action = MapActionAdd}
        |-> evs[LastFor(evs, k)].Inject]

\* the mapping after the first n events received
MappingAt(n) == Expected(SubSeq(received, 1, n))

\* the device id of the request, 0 when the path variable is no literal
RequestDpid ==
    IF \E w \in DpidMeaning : w.text = req.dpidStr
    THEN (CHOOSE w \in DpidMeaning : w.text = req.dpidStr).dpid
    ELSE 0

\* C16: a POST whose dpid is no unsigned 64-bit literal, or has no injector
\* registered, is answered not-found and Inject is not invoked; one whose
\* dpid is registered and whose body is read has Inject of the registered
\* injector invoked exactly once with the body.
C16_PostOutcome ==
    /\ req.pc # "done" => injected = << >>
    /\ req.pc = "done" =>
          IF RequestDpid = 0 \/ RequestDpid \notin DOMAIN MappingAt(req.at)
          THEN req.resp = "404" /\ injected = << >>
          ELSE IF req.resp = "500" THEN injected = << >>
          ELSE /\ req.resp = "200"
               /\ Len(injected) = 1
               /\ injected[1].inject = MappingAt(req.at)[RequestDpid]
               /\ injected[1].data = RequestBody

\* a request for a registered device id has delivered its body
C16_Witness ==
    /\ req.pc = "done"
    /\ req.resp = "200"
    /\ req.dpidStr = <<"0", "x", "2">>
    /\ Len(injected) = 1

\* C18: the mapping is at every moment the result of applying, in the order
\* of arrival, the events the update task has finished with: an add
\* overwrites, a delete of an absent id and an event that is neither add nor
\* delete change nothing; no reader holds the lock while the update task
\* writes, and a listing shows the ids of such a result.
C18_MappingFollowsEvents ==
    /\ injectors = MappingAt(AppliedCount)
    /\ lock.w <=> upd.pc = "held"
    /\ lock.r > 0 => upd.pc # "held"
    /\ lst.pc = "done" => lst.keys = DOMAIN MappingAt(lst.at)

\* an add for an id that was registered has been applied and listed
C18_Witness ==
    /\ upd.pc = "recv"
    /\ Len(received) = 2
    /\ received[1].Action = MapActionAdd
    /\ received[2].Action = MapActionAdd
    /\ received[1].DPID = received[2].DPID
    /\ received[1].Inject # received[2].Inject
    /\ lst.pc = "done"
    /\ lst.at = 2

\* C19: Inject is invoked only on the injector that is registered for the
\* device id at the moment of the call: once a delete for the id has been
\* applied no request delivers to the injector removed.
C19_InjectOnlyWhileRegistered ==
    \A k \in DOMAIN injected : injected[k].live

====
